---- MODULE Spec2Model ----
(***************************************************************************)
(* Reversan Engine: the bitboard rules engine (find_moves, play_move,      *)
(* rate_board) in its RVV backends, and the start-up sequence of main.     *)
(*                                                                         *)
(* A uint64_t bitmap is modelled as the set of its set bit positions       *)
(* (bit i of the word <-> i \in 0..63).  Bitwise AND, OR, XOR and NOT are  *)
(* intersection, union, symmetric difference and complement; the logical   *)
(* shifts << s and >> s move every position by s and drop what leaves the  *)
(* 64-bit word.  A vuint64m1_t register with vl = 4 is the tuple of its    *)
(* four lanes, each a bitmap.                                              *)
(***************************************************************************)
EXTENDS Integers, FiniteSets, Sequences, TLC

\* ------------------------------------------------------------------ bounds
\* Largest number of moves applied in one game of the model.
MaxMoves == 3
\* Largest number of empty cells of an end-game fixture.
MaxEmpty == 3
\* Children of the split node of the parallel search (the first is the eldest).
Siblings == 4
\* Worker threads of the pool.
Workers == 2
\* Largest search depth stored with a transposition-table entry.
MaxDepth == 2

\* ------------------------------------------------------------ 64-bit words
\* Bit positions of a uint64_t.
Bits == 0..63

\* x << s on a 64-bit word.
sll(x, s) == {b + s : b \in {c \in x : c + s <= 63}}

\* x >> s (logical) on a 64-bit word.
srl(x, s) == {b - s : b \in {c \in x : c - s >= 0}}

\* x ^ y.
xor(x, y) == (x \ y) \cup (y \ x)

\* std::popcount.
popcount(x) == Cardinality(x)

\* ------------------------------------------------------------ vector lanes
\* vl = __riscv_vsetvl_e64m1(4): the four shift directions.
Lanes == 1..4

\* {1, 7, 8, 9}: horizontal, anti-diagonal, vertical, diagonal.
shift_vals_data == <<1, 7, 8, 9>>

\* 0x7e7e7e7e7e7e7e7e: every cell outside the two edge columns.
SIDE_COLS_MASK == {b \in Bits : b % 8 \in 1..6}

\* 0xffffffffffffffff.
NO_COL_MASK == Bits

col_mask_data == <<SIDE_COLS_MASK, SIDE_COLS_MASK, NO_COL_MASK, SIDE_COLS_MASK>>

\* __riscv_vmv_v_x_u64m1: broadcast a scalar to every lane.
vmv_v_x(x) == <<x, x, x, x>>

\* __riscv_vsll_vv_u64m1 / __riscv_vsrl_vv_u64m1: per-lane shifts.
vsll_vv(v, sv) == <<sll(v[1], sv[1]), sll(v[2], sv[2]), sll(v[3], sv[3]), sll(v[4], sv[4])>>
vsrl_vv(v, sv) == <<srl(v[1], sv[1]), srl(v[2], sv[2]), srl(v[3], sv[3]), srl(v[4], sv[4])>>

\* __riscv_vor_vv_u64m1 / __riscv_vand_vv_u64m1 / __riscv_vand_vx_u64m1.
vor_vv(a, b) == <<a[1] \cup b[1], a[2] \cup b[2], a[3] \cup b[3], a[4] \cup b[4]>>
vand_vv(a, b) == <<a[1] \cap b[1], a[2] \cap b[2], a[3] \cap b[3], a[4] \cap b[4]>>
vand_vx(a, x) == <<a[1] \cap x, a[2] \cap x, a[3] \cap x, a[4] \cap x>>

\* __riscv_vredor_vs_u64m1_u64m1 with a zero scalar, then vmv_x_s.
vredor_vs(v) == UNION {v[i] : i \in Lanes}

\* ------------------------------------------------ find_moves, looped backend
\* Trip count of the flood loop: for (int i = 0; i < 5; ++i).
FLOOD_ITERS == 5

\* One trip of the flood loop.
flood_step(ans_vec, opponent_adjusted_vec) ==
    LET left_shift_vec == vsll_vv(ans_vec, shift_vals_data)
        right_shift_vec == vsrl_vv(ans_vec, shift_vals_data)
        tmp_or_vec == vor_vv(left_shift_vec, right_shift_vec)
        tmp_and_vec == vand_vv(tmp_or_vec, opponent_adjusted_vec)
    IN vor_vv(ans_vec, tmp_and_vec)

RECURSIVE flood_loop(_, _, _)
flood_loop(ans_vec, opponent_adjusted_vec, n) ==
    IF n = 0 THEN ans_vec
    ELSE flood_loop(flood_step(ans_vec, opponent_adjusted_vec),
                    opponent_adjusted_vec, n - 1)

\* Mutant of find_moves: no edge-column mask, so the flood crosses row ends.
find_moves_nomask(white_bitmap, black_bitmap, color) ==
    LET free_spaces == Bits \ (white_bitmap \cup black_bitmap)
        playing == IF color THEN white_bitmap ELSE black_bitmap
        opponent == IF color THEN black_bitmap ELSE white_bitmap
        opponent_adjusted_vec == vmv_v_x(opponent)
        ans0 == vmv_v_x(playing)
        ans1 == vand_vv(vor_vv(vsll_vv(ans0, shift_vals_data),
                               vsrl_vv(ans0, shift_vals_data)),
                        opponent_adjusted_vec)
        ans_vec == flood_loop(ans1, opponent_adjusted_vec, FLOOD_ITERS)
        tmp_or_vec == vor_vv(vsll_vv(ans_vec, shift_vals_data),
                             vsrl_vv(ans_vec, shift_vals_data))
    IN vredor_vs(tmp_or_vec) \cap free_spaces

\* Mutant of find_moves: one trip of the flood loop too few.
find_moves_short(white_bitmap, black_bitmap, color) ==
    LET free_spaces == Bits \ (white_bitmap \cup black_bitmap)
        playing == IF color THEN white_bitmap ELSE black_bitmap
        opponent == IF color THEN black_bitmap ELSE white_bitmap
        opponent_adjusted_vec == vand_vx(col_mask_data, opponent)
        ans0 == vmv_v_x(playing)
        ans1 == vand_vv(vor_vv(vsll_vv(ans0, shift_vals_data),
                               vsrl_vv(ans0, shift_vals_data)),
                        opponent_adjusted_vec)
        ans_vec == flood_loop(ans1, opponent_adjusted_vec, FLOOD_ITERS - 1)
        tmp_or_vec == vor_vv(vsll_vv(ans_vec, shift_vals_data),
                             vsrl_vv(ans_vec, shift_vals_data))
    IN vredor_vs(tmp_or_vec) \cap free_spaces

\* Board::find_moves(color) on the board (white_bitmap, black_bitmap).
find_moves(white_bitmap, black_bitmap, color) ==
    LET free_spaces == Bits \ (white_bitmap \cup black_bitmap)
        playing == IF color THEN white_bitmap ELSE black_bitmap
        opponent == IF color THEN black_bitmap ELSE white_bitmap
        opponent_adjusted_vec == vand_vx(col_mask_data, opponent)
        ans0 == vmv_v_x(playing)
        ans1 == vand_vv(vor_vv(vsll_vv(ans0, shift_vals_data),
                               vsrl_vv(ans0, shift_vals_data)),
                        opponent_adjusted_vec)
        ans_vec == flood_loop(ans1, opponent_adjusted_vec, FLOOD_ITERS)
        tmp_or_vec == vor_vv(vsll_vv(ans_vec, shift_vals_data),
                             vsrl_vv(ans_vec, shift_vals_data))
        valid_moves == vredor_vs(tmp_or_vec)
    IN valid_moves \cap free_spaces

\* ------------------------------------------------- play_move, looped backend
\* Trip count of the capture loop: for (int i = 0; i < 6; ++i).
PLAY_ITERS == 6

\* The capture loop; the state is (left_shift_vec, right_shift_vec,
\* left_shift_vec_next, right_shift_vec_next).
RECURSIVE play_loop(_, _, _)
play_loop(st, opponent_adjusted_vec, n) ==
    IF n = 0 THEN st
    ELSE LET left_next == vsll_vv(st.left, shift_vals_data)
             right_next == vsrl_vv(st.right, shift_vals_data)
         IN play_loop([left |-> vand_vv(vor_vv(st.left, left_next), opponent_adjusted_vec),
                       right |-> vand_vv(vor_vv(st.right, right_next), opponent_adjusted_vec),
                       left_next |-> left_next,
                       right_next |-> right_next],
                      opponent_adjusted_vec, n - 1)

\* Mutant of capture_select: every run is captured, whatever ends it.
capture_select_all(st, playing) ==
    UNION ({st.left[i] : i \in Lanes} \cup {st.right[i] : i \in Lanes})

\* for (i = 0; i < 4; ++i) if ((next[i] & playing) != 0) capture |= data[i];
capture_select(st, playing) ==
    UNION ({st.left[i] : i \in {j \in Lanes : st.left_next[j] \cap playing # {}}}
           \cup {st.right[i] : i \in {j \in Lanes : st.right_next[j] \cap playing # {}}})

\* Mutant of play_capture: the scan starts from the mover's discs as well as
\* from the move (the seed of find_moves).
play_capture_seeded(playing, opponent, move) ==
    LET move_vec == vmv_v_x(playing \cup move)
        opponent_adjusted_vec == vand_vv(vmv_v_x(opponent), col_mask_data)
        left0 == vand_vv(vsll_vv(move_vec, shift_vals_data), opponent_adjusted_vec)
        right0 == vand_vv(vsrl_vv(move_vec, shift_vals_data), opponent_adjusted_vec)
        st == play_loop([left |-> left0, right |-> right0,
                         left_next |-> left0, right_next |-> right0],
                        opponent_adjusted_vec, PLAY_ITERS)
    IN capture_select(st, playing)

\* The captured discs of play_move, as the looped backend computes them.
play_capture(playing, opponent, move) ==
    LET move_vec == vmv_v_x(move)
        opponent_adjusted_vec == vand_vv(vmv_v_x(opponent), col_mask_data)
        left0 == vand_vv(vsll_vv(move_vec, shift_vals_data), opponent_adjusted_vec)
        right0 == vand_vv(vsrl_vv(move_vec, shift_vals_data), opponent_adjusted_vec)
        st == play_loop([left |-> left0, right |-> right0,
                         left_next |-> left0, right_next |-> right0],
                        opponent_adjusted_vec, PLAY_ITERS)
    IN capture_select(st, playing)

\* Mutant of play_move: the captured discs are not taken from the opponent.
play_move_noflip(white_bitmap, black_bitmap, color, move) ==
    LET playing == IF color THEN white_bitmap ELSE black_bitmap
        opponent == IF color THEN black_bitmap ELSE white_bitmap
        capture == play_capture(playing, opponent, move)
        playing2 == (playing \cup move) \cup capture
    IN IF color THEN [white |-> playing2, black |-> opponent]
       ELSE [white |-> opponent, black |-> playing2]

\* Mutant of play_move: the two bitmaps are written back the wrong way round.
play_move_swapped(white_bitmap, black_bitmap, color, move) ==
    LET playing == IF color THEN white_bitmap ELSE black_bitmap
        opponent == IF color THEN black_bitmap ELSE white_bitmap
        capture == play_capture(playing, opponent, move)
        playing2 == (playing \cup move) \cup capture
        opponent2 == xor(opponent, capture)
    IN IF color THEN [white |-> opponent2, black |-> playing2]
       ELSE [white |-> playing2, black |-> opponent2]

\* Mutant of play_move: the destination bit is not set.
play_move_nodest(white_bitmap, black_bitmap, color, move) ==
    LET playing == IF color THEN white_bitmap ELSE black_bitmap
        opponent == IF color THEN black_bitmap ELSE white_bitmap
        capture == play_capture(playing, opponent, move)
        playing2 == playing \cup capture
        opponent2 == xor(opponent, capture)
    IN IF color THEN [white |-> playing2, black |-> opponent2]
       ELSE [white |-> opponent2, black |-> playing2]

\* Board::play_move(color, move): the board after the call.
play_move(white_bitmap, black_bitmap, color, move) ==
    LET playing == IF color THEN white_bitmap ELSE black_bitmap
        opponent == IF color THEN black_bitmap ELSE white_bitmap
        capture == play_capture(playing, opponent, move)
        playing2 == (playing \cup move) \cup capture
        opponent2 == xor(opponent, capture)
    IN IF color THEN [white |-> playing2, black |-> opponent2]
       ELSE [white |-> opponent2, black |-> playing2]

\* ----------------------------------------------- find_moves, unrolled backend
\* The FLOOD_STEP macro.
FLOOD_STEP(ans_vec, opponent_adjusted_vec) ==
    LET left_shift_vec == vsll_vv(ans_vec, shift_vals_data)
        right_shift_vec == vsrl_vv(ans_vec, shift_vals_data)
        tmp_or_vec == vor_vv(left_shift_vec, right_shift_vec)
    IN vor_vv(ans_vec, vand_vv(tmp_or_vec, opponent_adjusted_vec))

\* find_moves_core(playing, opponent, free_spaces, shift_vals_vec, col_mask_vec, vl).
find_moves_core(playing, opponent, free_spaces, shift_vals_vec, col_mask_vec) ==
    LET opponent_adjusted_vec == vand_vx(col_mask_vec, opponent)
        ans0 == vmv_v_x(playing)
        ans1 == vand_vv(vor_vv(vsll_vv(ans0, shift_vals_vec),
                               vsrl_vv(ans0, shift_vals_vec)),
                        opponent_adjusted_vec)
        ans2 == FLOOD_STEP(ans1, opponent_adjusted_vec)
        ans3 == FLOOD_STEP(ans2, opponent_adjusted_vec)
        ans4 == FLOOD_STEP(ans3, opponent_adjusted_vec)
        ans5 == FLOOD_STEP(ans4, opponent_adjusted_vec)
        ans6 == FLOOD_STEP(ans5, opponent_adjusted_vec)
        tmp_or_vec == vor_vv(vsll_vv(ans6, shift_vals_vec),
                             vsrl_vv(ans6, shift_vals_vec))
    IN vredor_vs(tmp_or_vec) \cap free_spaces

\* Board::find_moves(color) of the unrolled backend.
find_moves_unrolled(white_bitmap, black_bitmap, color) ==
    LET free_spaces == Bits \ (white_bitmap \cup black_bitmap)
        playing == IF color THEN white_bitmap ELSE black_bitmap
        opponent == IF color THEN black_bitmap ELSE white_bitmap
    IN find_moves_core(playing, opponent, free_spaces, shift_vals_data, col_mask_data)

\* ------------------------------------------------ play_move, unrolled backend
\* The PLAY_STEP macro.
PLAY_STEP(st, opponent_adjusted_vec) ==
    LET left_shift_vec_next == vsll_vv(st.left, shift_vals_data)
        right_shift_vec_next == vsrl_vv(st.right, shift_vals_data)
    IN [left |-> vand_vv(vor_vv(st.left, left_shift_vec_next), opponent_adjusted_vec),
        right |-> vand_vv(vor_vv(st.right, right_shift_vec_next), opponent_adjusted_vec),
        left_next |-> left_shift_vec_next,
        right_next |-> right_shift_vec_next]

\* vmsne against zero, then vmerge(zero_vec, v, mask): lanes whose check is
\* non-zero keep v, the others become zero.
vmerge_valid(v, check) ==
    <<IF check[1] # {} THEN v[1] ELSE {}, IF check[2] # {} THEN v[2] ELSE {},
      IF check[3] # {} THEN v[3] ELSE {}, IF check[4] # {} THEN v[4] ELSE {}>>

\* Mutant of play_move_unrolled: one PLAY_STEP too few.
play_move_unrolled_short(white_bitmap, black_bitmap, color, move) ==
    LET playing == IF color THEN white_bitmap ELSE black_bitmap
        opponent == IF color THEN black_bitmap ELSE white_bitmap
        playing_vec == vmv_v_x(playing)
        opponent_adjusted_vec == vand_vx(col_mask_data, opponent)
        move_vec == vmv_v_x(move)
        left0 == vand_vv(vsll_vv(move_vec, shift_vals_data), opponent_adjusted_vec)
        right0 == vand_vv(vsrl_vv(move_vec, shift_vals_data), opponent_adjusted_vec)
        st0 == [left |-> left0, right |-> right0]
        st1 == PLAY_STEP(st0, opponent_adjusted_vec)
        st2 == PLAY_STEP(st1, opponent_adjusted_vec)
        st3 == PLAY_STEP(st2, opponent_adjusted_vec)
        st4 == PLAY_STEP(st3, opponent_adjusted_vec)
        st5 == PLAY_STEP(st4, opponent_adjusted_vec)
        capture_left == vmerge_valid(st5.left, vand_vv(st5.left_next, playing_vec))
        capture_right == vmerge_valid(st5.right, vand_vv(st5.right_next, playing_vec))
        capture == vredor_vs(vor_vv(capture_left, capture_right))
        playing2 == (playing \cup move) \cup capture
        opponent2 == xor(opponent, capture)
    IN IF color THEN [white |-> playing2, black |-> opponent2]
       ELSE [white |-> opponent2, black |-> playing2]

\* Board::play_move(color, move) of the unrolled backend.
play_move_unrolled(white_bitmap, black_bitmap, color, move) ==
    LET playing == IF color THEN white_bitmap ELSE black_bitmap
        opponent == IF color THEN black_bitmap ELSE white_bitmap
        playing_vec == vmv_v_x(playing)
        opponent_adjusted_vec == vand_vx(col_mask_data, opponent)
        move_vec == vmv_v_x(move)
        left0 == vand_vv(vsll_vv(move_vec, shift_vals_data), opponent_adjusted_vec)
        right0 == vand_vv(vsrl_vv(move_vec, shift_vals_data), opponent_adjusted_vec)
        \* left_shift_vec_next and right_shift_vec_next are declared without a
        \* value and first written by the first PLAY_STEP.
        st0 == [left |-> left0, right |-> right0]
        st1 == PLAY_STEP(st0, opponent_adjusted_vec)
        st2 == PLAY_STEP(st1, opponent_adjusted_vec)
        st3 == PLAY_STEP(st2, opponent_adjusted_vec)
        st4 == PLAY_STEP(st3, opponent_adjusted_vec)
        st5 == PLAY_STEP(st4, opponent_adjusted_vec)
        st6 == PLAY_STEP(st5, opponent_adjusted_vec)
        left_check == vand_vv(st6.left_next, playing_vec)
        right_check == vand_vv(st6.right_next, playing_vec)
        capture_left == vmerge_valid(st6.left, left_check)
        capture_right == vmerge_valid(st6.right, right_check)
        capture_all == vor_vv(capture_left, capture_right)
        capture == vredor_vs(capture_all)
        playing2 == (playing \cup move) \cup capture
        opponent2 == xor(opponent, capture)
    IN IF color THEN [white |-> playing2, black |-> opponent2]
       ELSE [white |-> opponent2, black |-> playing2]

\* ------------------------------------------------------------- rate_board
\* Board::heuristics_map, the 64 cell weights (include/board/board.h).  Every
\* weight lies in the signed-byte range the vector backends pack it into;
\* the weights are pairwise distinct, so that a weight read for the wrong
\* cell changes the score.
heuristics_map == [i \in 0..63 |-> ((i * 37 + 5) % 256) - 128]

\* Mutant of score_loop: the weights of black discs are added, not subtracted.
RECURSIVE score_loop_unsigned(_, _, _, _)
score_loop_unsigned(white_bitmap, black_bitmap, i, score) ==
    IF i = 64 THEN score
    ELSE score_loop_unsigned(white_bitmap, black_bitmap, i + 1,
                    score + (IF i \in white_bitmap THEN 1 ELSE 0) * heuristics_map[63 - i]
                          + (IF i \in black_bitmap THEN 1 ELSE 0) * heuristics_map[63 - i])

\* Scalar rate_board: the loop over the 64 cells, from cell i with score.
RECURSIVE score_loop(_, _, _, _)
score_loop(white_bitmap, black_bitmap, i, score) ==
    IF i = 64 THEN score
    ELSE score_loop(white_bitmap, black_bitmap, i + 1,
                    score + (IF i \in white_bitmap THEN 1 ELSE 0) * heuristics_map[63 - i]
                          - (IF i \in black_bitmap THEN 1 ELSE 0) * heuristics_map[63 - i])

\* Mutant of rate_board: the mobility term counts white's moves only.
rate_board_white_mobility(white_bitmap, black_bitmap) ==
    LET score == score_loop(white_bitmap, black_bitmap, 0, 0)
        moves_delta == popcount(find_moves(white_bitmap, black_bitmap, TRUE))
    IN score + 10 * moves_delta

\* Board::rate_board() of the scalar backend.
rate_board(white_bitmap, black_bitmap) ==
    LET score == score_loop(white_bitmap, black_bitmap, 0, 0)
        moves_delta == popcount(find_moves(white_bitmap, black_bitmap, TRUE))
                       - popcount(find_moves(white_bitmap, black_bitmap, FALSE))
    IN score + 10 * moves_delta

\* static_cast<uint8_t>(int).
to_u8(n) == n % 256

\* Reinterpretation of a byte as int8_t, and of 16 bits as int16_t.
as_i8(n) == LET u == n % 256 IN IF u >= 128 THEN u - 256 ELSE u
as_i16(n) == LET u == n % 65536 IN IF u >= 32768 THEN u - 65536 ELSE u

\* The bit positions set in the byte value n (0..255).
pow2(k) == <<1, 2, 4, 8, 16, 32, 64, 128>>[k + 1]
byte_bits(n) == {b \in 0..7 : (n \div pow2(b)) % 2 = 1}

\* Byte j (0 = least significant) of a 64-bit word, as an unsigned value.
RECURSIVE bits_value(_, _, _)
bits_value(word, j, b) ==
    IF b = 8 THEN 0
    ELSE (IF 8 * j + b \in word THEN pow2(b) ELSE 0) + bits_value(word, j, b + 1)
byte_of(word, j) == bits_value(word, j, 0)

\* rvv_convert_col(col): val <<= 8; val |= uint8(heuristics_map[i * 8 + col]).
RECURSIVE convert_loop(_, _, _)
convert_loop(col, i, val) ==
    IF i = 8 THEN val
    ELSE convert_loop(col, i + 1,
                      sll(val, 8) \cup byte_bits(to_u8(heuristics_map[i * 8 + col])))
\* Mutant of rvv_convert_col: the weight table read by row instead of by column.
RECURSIVE convert_loop_row(_, _, _)
convert_loop_row(col, i, val) ==
    IF i = 8 THEN val
    ELSE convert_loop_row(col, i + 1,
                          sll(val, 8) \cup byte_bits(to_u8(heuristics_map[col * 8 + i])))
rvv_convert_row(col) == convert_loop_row(col, 0, {})

rvv_convert_col(col) == convert_loop(col, 0, {})

\* heur_cols[8] (element k of the array is heur_cols[k + 1]).
heur_cols == <<rvv_convert_col(0), rvv_convert_col(1), rvv_convert_col(2), rvv_convert_col(3),
               rvv_convert_col(4), rvv_convert_col(5), rvv_convert_col(6), rvv_convert_col(7)>>

\* shift_vals[8] = {7, 6, 5, 4, 3, 2, 1, 0} (element k is shift_vals[k + 1]).
shift_vals == <<7, 6, 5, 4, 3, 2, 1, 0>>

\* 0x0101010101010101.
LSB_MASK == {8 * j : j \in 0..7}

\* Phase 1, element k of the e64 register group: vmv_v_x, vsrl_vv by shift_vals,
\* vand_vx with 0x0101...01.
presence_vec(bitmap, k) == srl(bitmap, shift_vals[k + 1]) \cap LSB_MASK

\* Phase 2 reads the 8 x u64 group as 64 bytes (little-endian): byte 8k + j is
\* byte j of element k.  delta = white - black (vsub_vv_i8m2), then the
\* widening multiply by the weight byte loaded from heur_cols (vwmul_vv_i16m4).
product(white_k, black_k, k, j) ==
    LET delta == as_i8(as_i8(byte_of(white_k, j)) - as_i8(byte_of(black_k, j)))
        heur == as_i8(byte_of(heur_cols[k + 1], j))
    IN as_i16(delta * heur)

\* vredsum_vs_i16m4_i16m1: the 16-bit wrapping sum of the 64 products, taken
\* element by element (the bytes below j of element k, then the elements below k).
RECURSIVE redsum_bytes(_, _, _, _)
redsum_bytes(white_k, black_k, k, j) ==
    IF j = 0 THEN 0
    ELSE as_i16(redsum_bytes(white_k, black_k, k, j - 1)
                + product(white_k, black_k, k, j - 1))

RECURSIVE redsum_i16(_, _, _)
redsum_i16(white_bitmap, black_bitmap, k) ==
    IF k = 0 THEN 0
    ELSE as_i16(redsum_i16(white_bitmap, black_bitmap, k - 1)
                + redsum_bytes(presence_vec(white_bitmap, k - 1),
                               presence_vec(black_bitmap, k - 1), k - 1, 8))

\* The heuristic part of the vectorized rate_board.
vector_score(white_bitmap, black_bitmap) == redsum_i16(white_bitmap, black_bitmap, 8)

\* Board::rate_board() of the vectorized backend with the looped find_moves.
rate_board_vec(white_bitmap, black_bitmap) ==
    LET score == vector_score(white_bitmap, black_bitmap)
        moves_delta == popcount(find_moves(white_bitmap, black_bitmap, TRUE))
                       - popcount(find_moves(white_bitmap, black_bitmap, FALSE))
    IN score + 10 * moves_delta

\* Board::rate_board() of the unrolled backend: both find_moves calls inlined
\* as find_moves_core.
rate_board_unrolled(white_bitmap, black_bitmap) ==
    LET score == vector_score(white_bitmap, black_bitmap)
        free_spaces == Bits \ (white_bitmap \cup black_bitmap)
        white_moves == find_moves_core(white_bitmap, black_bitmap, free_spaces,
                                       shift_vals_data, col_mask_data)
        black_moves == find_moves_core(black_bitmap, white_bitmap, free_spaces,
                                       shift_vals_data, col_mask_data)
        moves_delta == popcount(white_moves) - popcount(black_moves)
    IN score + 10 * moves_delta

\* ------------------------------------------------------------------- main
\* Engine::Alg.
Algs == {"ALPHABETA", "NEGASCOUT"}

\* Largest accepted search depth of the command line (the accepted range is
\* 1..DepthLimit).
DepthLimit == 1

\* The settings a command line can ask for.
CmdLines == [alg : Algs, thread_count : {-1, 0, 1, 2}, depth : 0..(DepthLimit + 1)]

\* A configuration the spec calls invalid: non-positive thread count or
\* out-of-range depth.
InvalidSettings(s) == s.thread_count <= 0 \/ s.depth < 1 \/ s.depth > DepthLimit

\* Parser::parse(argc, argv): false for an invalid configuration.
Parser_parse(s) == ~InvalidSettings(s)

\* Mutant of after_parse: the result of parse is ignored.
after_parse_ignored(ok) == "init_engine"

\* if (!parser.parse(argc, argv)) return 1;  -- where main continues.
after_parse(ok) == IF ok THEN "init_engine" ELSE "exit1"

\* Mutant of select_engine: the thread count alone selects the parallel engine.
select_engine_anyalg(s) ==
    IF s.thread_count > 1 THEN "NegascoutParallel"
    ELSE IF s.alg = "ALPHABETA" THEN "Alphabeta"
    ELSE "Negascout"

\* The engine main constructs for the parsed settings.
select_engine(s) ==
    IF s.alg = "ALPHABETA" THEN "Alphabeta"
    ELSE IF s.alg = "NEGASCOUT" /\ s.thread_count > 1 THEN "NegascoutParallel"
    ELSE "Negascout"

\* ------------------------------------------------------------- board inputs
\* Board::States::INITIAL: the four centre discs.
INITIAL == [white |-> {27, 36}, black |-> {28, 35}]

\* Bit steps of the 8 directions.
Steps == {1, 7, 8, 9, -1, -7, -8, -9}

\* Longest run of opponent discs between two cells of an 8-cell line.
MaxRun == 8 - 2

\* Cells the line fixtures start from: the corners and their neighbours
\* across a row boundary of the bitmap.
RayCells == {0, 6, 7, 8, 55, 56, 57, 63}

\* A board holding one line of the bitmap: the empty cell c, n discs of the
\* side not to move at c + d, ..., c + n*d, and a disc of the side to move at
\* c + (n+1)*d.  The line follows the bit index, so it is a line of the board
\* or one broken across a row boundary.
RayBoard(c, d, n, color) ==
    LET run == {c + d * i : i \in 1..n}
        far == {c + d * (n + 1)}
    IN IF color THEN [white |-> far, black |-> run]
       ELSE [white |-> run, black |-> far]

\* Run lengths of the line fixtures: the shortest and the two longest.
RunLengths == {1, MaxRun - 1, MaxRun}

RayParams == {p \in RayCells \X Steps \X RunLengths : p[1] + p[2] * (p[3] + 1) \in Bits}

\* White is to move on the lines that run up the bit index, black on the others.
RayBoards(color) == {RayBoard(p[1], p[2], p[3], color) : p \in {q \in RayParams : (q[2] > 0) = color}}

\* End-game fixtures: a full board with a fixed colouring, less the cells of
\* a non-empty set of at most MaxEmpty holes.
EndWhite == {i \in Bits : (i * 5 + (i \div 8) * 3) % 7 < 3}
HoleCells == {0, 9, 31, 56}
HoleSets == {h \in SUBSET HoleCells : Cardinality(h) \in 1..MaxEmpty}
EndBoards == {[white |-> EndWhite \ h, black |-> (Bits \ EndWhite) \ h] : h \in HoleSets}

\* ------------------------------------------------------------------- state
VARIABLES
    pc,          \* where main is
    settings,    \* the settings the command line asks for
    engine,      \* static Engine *engine: "null" or the class constructed
    ui,          \* static UI *ui: "null" or "Terminal"
    white,       \* white_bitmap of the game's Board (looped backend)
    black,       \* black_bitmap of the game's Board (looped backend)
    uwhite,      \* white_bitmap of the same game on the unrolled backend
    ublack,      \* black_bitmap of the same game on the unrolled backend
    color,       \* the side to move (TRUE = white)
    nmoves,      \* moves applied so far
    k0,          \* empty cells of the starting position
    pwhite,      \* the board before the last play_move ...
    pblack,
    lastMove,    \* ... the move mask passed to it ({} before the first) ...
    lastColor,   \* ... and its color
    passed,      \* the last turn was skipped
    ui_rel,      \* times delete was applied to the UI object
    engine_rel,  \* times delete was applied to the engine object
    node,        \* where the search of the split node is
    task,        \* task[i]: where the search of child i is
    expired,     \* the time budget is exhausted
    slot,        \* the transposition-table slot of one signature: [depth, val]
    lock,        \* the thread holding the table's guard, 0 if none
    inc,         \* inc[i]: the depth of the entry child i is storing, 0 if none
    maxd         \* the largest depth of the stores made so far

vars == <<pc, settings, engine, ui, white, black, uwhite, ublack, color,
          nmoves, k0, pwhite, pblack, lastMove, lastColor, passed,
          ui_rel, engine_rel, node, task, expired, slot, lock, inc, maxd>>

\* The state of the parallel search and of the transposition table.
par == <<node, task, expired, slot, lock, inc, maxd>>

\* The release counts of the two objects main owns.
heap == <<ui_rel, engine_rel>>

game == <<white, black, uwhite, ublack, color, nmoves, k0,
          pwhite, pblack, lastMove, lastColor, passed>>

\* The threads of the parallel search: child i is searched by thread i (the
\* eldest child, 1, by the thread that searches the split node).
Children == 1..Siblings
Younger == 2..Siblings

\* The entry thread i stores for a search of depth d: the depth field and the
\* rest of the entry (score, bound, move), which is this thread's own result.
Entry(i, d) == [depth |-> d, val |-> <<i, d>>]

\* An empty transposition-table slot.
EmptySlot == Entry(0, 0)

\* Both fields of the slot come from one store.
Whole(e) == e.val[2] = e.depth

\* No parallel search has started.
NoSearch ==
    /\ node = "eldest"
    /\ task = [i \in Children |-> "none"]
    /\ expired = FALSE
    /\ slot = EmptySlot
    /\ lock = 0
    /\ inc = [i \in Children |-> 0]
    /\ maxd = 0

DefaultSettings == [alg |-> "NEGASCOUT", thread_count |-> 1, depth |-> 1]

StartAt(b, c) ==
    /\ white = b.white /\ black = b.black
    /\ uwhite = b.white /\ ublack = b.black
    /\ color = c
    /\ nmoves = 0
    /\ k0 = popcount(Bits \ (b.white \cup b.black))
    /\ pwhite = b.white /\ pblack = b.black
    /\ lastMove = {} /\ lastColor = c
    /\ passed = FALSE

\* Either the process at the entry of main, with any command line and the
\* initial position; or app.run() of the default command line starting a
\* game on a fixture board; or a caller of the Board interface that holds an
\* end-game fixture and moves either color.
Init ==
    /\ ui_rel = 0
    /\ engine_rel = 0
    /\ NoSearch
    /\ \/ /\ pc = "parse"
          /\ engine = "null"
          /\ ui = "null"
          /\ settings \in CmdLines
          /\ StartAt(INITIAL, FALSE)
       \/ /\ pc = "run"
          /\ settings = DefaultSettings
          /\ engine = select_engine(DefaultSettings)
          /\ ui = "Terminal"
          /\ \E c \in BOOLEAN : \E b \in RayBoards(c) \cup EndBoards : StartAt(b, c)
       \/ /\ pc = "call"
          /\ settings = DefaultSettings
          /\ engine = "null"
          /\ ui = "null"
          /\ \E b \in EndBoards : StartAt(b, FALSE)

\* Parser parser; if (!parser.parse(argc, argv)) return 1;
Parse ==
    /\ pc = "parse"
    /\ pc' = after_parse(Parser_parse(settings))
    /\ UNCHANGED <<settings, engine, ui, game, heap, par>>

\* engine = new Alphabeta / NegascoutParallel / Negascout (parser.get_settings())
InitEngine ==
    /\ pc = "init_engine"
    /\ engine' = select_engine(settings)
    /\ pc' = "init_ui"
    /\ UNCHANGED <<settings, ui, game, heap, par>>

\* ui = new Terminal(parser.get_style()); App app(...); app.run() begins
InitUi ==
    /\ pc = "init_ui"
    /\ ui' = "Terminal"
    /\ pc' = "run"
    /\ UNCHANGED <<settings, engine, game, heap, par>>

\* One turn of the game: the side to move applies one of its legal moves.
Play ==
    /\ pc = "run"
    /\ nmoves < MaxMoves
    /\ \E m \in find_moves(white, black, color) :
         LET b == play_move(white, black, color, {m})
             u == play_move_unrolled(uwhite, ublack, color, {m})
         IN /\ white' = b.white /\ black' = b.black
            /\ uwhite' = u.white /\ ublack' = u.black
            /\ lastMove' = {m}
    /\ pwhite' = white /\ pblack' = black
    /\ lastColor' = color
    /\ color' = ~color
    /\ nmoves' = nmoves + 1
    /\ passed' = FALSE
    /\ UNCHANGED <<pc, settings, engine, ui, k0, heap, par>>

\* uint64_t moves = b.find_moves(c); if (moves) b.play_move(c, move): a caller
\* outside a game applies a legal move of a color c of its choice.
Call ==
    /\ pc = "call"
    /\ nmoves < MaxMoves
    /\ \E c \in BOOLEAN : \E m \in find_moves(white, black, c) :
         LET b == play_move(white, black, c, {m})
             u == play_move_unrolled(uwhite, ublack, c, {m})
         IN /\ white' = b.white /\ black' = b.black
            /\ uwhite' = u.white /\ ublack' = u.black
            /\ lastMove' = {m}
            /\ lastColor' = c
            /\ color' = ~c
    /\ pwhite' = white /\ pblack' = black
    /\ nmoves' = nmoves + 1
    /\ UNCHANGED <<pc, settings, engine, ui, k0, passed, heap, par>>

\* b.play_move(c, 0): a caller outside a game applies the pass value for a
\* color c of its choice (not twice in a row).
CallPass ==
    /\ pc = "call"
    /\ ~(passed /\ lastMove = {})
    /\ \E c \in BOOLEAN :
         LET b == play_move(white, black, c, {})
             u == play_move_unrolled(uwhite, ublack, c, {})
         IN /\ white' = b.white /\ black' = b.black
            /\ uwhite' = u.white /\ ublack' = u.black
            /\ lastColor' = c
            /\ color' = ~c
    /\ lastMove' = {}
    /\ pwhite' = white /\ pblack' = black
    /\ passed' = TRUE
    /\ UNCHANGED <<pc, settings, engine, ui, nmoves, k0, heap, par>>

\* The side to move has no legal move and its opponent has one: the turn is
\* skipped.
Pass ==
    /\ pc = "run"
    /\ find_moves(white, black, color) = {}
    /\ find_moves(white, black, ~color) # {}
    /\ color' = ~color
    /\ passed' = TRUE
    /\ UNCHANGED <<pc, settings, engine, ui, white, black, uwhite, ublack,
                   nmoves, k0, pwhite, pblack, lastMove, lastColor, heap, par>>

\* Neither side has a legal move: the game ends and app.run() returns.
GameOver ==
    /\ pc = "run"
    /\ find_moves(white, black, color) = {}
    /\ find_moves(white, black, ~color) = {}
    /\ pc' = "delete_ui"
    /\ UNCHANGED <<settings, engine, ui, game, heap, par>>

\* delete ui;
DeleteUi ==
    /\ pc = "delete_ui"
    /\ ui_rel' = ui_rel + 1
    /\ pc' = "delete_engine"
    /\ UNCHANGED <<settings, engine, ui, game, engine_rel, par>>

\* delete engine;
DeleteEngine ==
    /\ pc = "delete_engine"
    /\ engine_rel' = engine_rel + 1
    /\ pc' = "return"
    /\ UNCHANGED <<settings, engine, ui, game, ui_rel, par>>

\* return 0;
Return ==
    /\ pc = "return"
    /\ pc' = "done"
    /\ UNCHANGED <<settings, engine, ui, game, heap, par>>

Next ==
    \/ Parse
    \/ InitEngine
    \/ InitUi
    \/ Play
    \/ Call
    \/ Pass
    \/ GameOver
    \/ DeleteUi
    \/ DeleteEngine
    \/ Return

\* The executions of the program in which no SIGINT is delivered.
Spec == Init /\ [][Next]_vars

\* A caller of the Board interface outside main: it holds a fixture board (an
\* end-game board, or a line board for either color) and applies moves and
\* the pass value for colors of its choice.
InitCall ==
    /\ pc = "call"
    /\ settings = DefaultSettings
    /\ engine = "null"
    /\ ui = "null"
    /\ ui_rel = 0
    /\ engine_rel = 0
    /\ NoSearch
    /\ \E b \in EndBoards \cup RayBoards(TRUE) \cup RayBoards(FALSE) : StartAt(b, FALSE)

NextCall ==
    \/ Call
    \/ CallPass

CallSpec == InitCall /\ [][NextCall]_vars

\* Where main is while the SIGINT handler is installed and the process runs.
Interruptible == {"parse", "init_engine", "init_ui", "run", "delete_ui", "delete_engine", "return"}

\* handle_sig(sig), run to its end on the interrupted main thread:
\* if (ui) delete ui; if (engine) delete engine; exit(sig).  The pointers are
\* never reset, so they stay non-null after main's own delete.  A second
\* delete of an object is undefined behaviour: the process may stop there
\* ("crashed") or go on to exit.
HandleSig ==
    /\ pc \in Interruptible
    /\ ui_rel' = IF ui # "null" THEN ui_rel + 1 ELSE ui_rel
    /\ \/ /\ ui_rel' > 1
          /\ engine_rel' = engine_rel
          /\ pc' = "crashed"
       \/ /\ engine_rel' = IF engine # "null" THEN engine_rel + 1 ELSE engine_rel
          /\ pc' \in IF ui_rel' > 1 \/ engine_rel' > 1 THEN {"exited", "crashed"} ELSE {"exited"}
    /\ UNCHANGED <<settings, engine, ui, game, par>>

NextSig ==
    \/ Next
    \/ HandleSig

\* The executions of the program with a SIGINT delivered at any point after
\* signal(SIGINT, handle_sig).
SigSpec == Init /\ [][NextSig]_vars

\* ---------------------------------------------------- the rules, by geometry
\* The 8 directions as (row step, column step); cell 8*r + c is row r, column c.
Dirs == {d \in {-1, 0, 1} \X {-1, 0, 1} : d # <<0, 0>>}

\* The cell k steps from cell in direction d, or -1 past a board edge.
At(cell, d, k) ==
    LET r == (cell \div 8) + k * d[1]
        c == (cell % 8) + k * d[2]
    IN IF r \in 0..7 /\ c \in 0..7 THEN 8 * r + c ELSE -1

\* From cell in direction d: n opponent discs, then a disc of the mover.
Flanked(mover, opp, cell, d, n) ==
    /\ \A i \in 1..n : At(cell, d, i) \in opp
    /\ At(cell, d, n + 1) \in mover

\* The opponent discs a move to cell captures in direction d.
Captured(mover, opp, cell, d) ==
    UNION {{At(cell, d, i) : i \in 1..n} : n \in {k \in 1..MaxRun : Flanked(mover, opp, cell, d, k)}}

Mover(w, b, c) == IF c THEN w ELSE b
Opp(w, b, c) == IF c THEN b ELSE w
Free(w, b) == Bits \ (w \cup b)

\* The empty cells from which some direction holds a run of 1..MaxRun opponent
\* discs ending at a disc of the mover.
LegalCells(w, b, c) ==
    {cell \in Free(w, b) :
        \E d \in Dirs : At(cell, d, 1) \in Opp(w, b, c) /\
            \E n \in 1..MaxRun : Flanked(Mover(w, b, c), Opp(w, b, c), cell, d, n)}

\* The board the rules give after the mover c plays to cell.
Expected(w, b, c, cell) ==
    LET flips == UNION {Captured(Mover(w, b, c), Opp(w, b, c), cell, d) : d \in Dirs}
        mine == Mover(w, b, c) \cup {cell} \cup flips
        theirs == Opp(w, b, c) \ flips
    IN IF c THEN [white |-> mine, black |-> theirs]
       ELSE [white |-> theirs, black |-> mine]

\* A move has been applied: lastMove is the cell, lastColor the mover and
\* (pwhite, pblack) the board it was applied to.
Played == lastMove # {}
LastCell == CHOOSE m \in lastMove : TRUE

\* The opponent discs met from cell in direction d before anything else.
RECURSIVE OppRun(_, _, _, _)
OppRun(opp, cell, d, k) ==
    IF At(cell, d, k) \in opp THEN {At(cell, d, k)} \cup OppRun(opp, cell, d, k + 1)
    ELSE {}

\* ------------------------------------------------------------------ claims
\* C1: in every state reached from a disjoint board by play_move calls with a
\* single cell of find_moves(color), white and black share no cell (on either
\* backend).
C1_Disjoint ==
    /\ white \cap black = {}
    /\ uwhite \cap ublack = {}

\* C1 witness: two moves were applied and the last one captured discs.
C1_Witness ==
    /\ nmoves >= 2
    /\ Cardinality(Mover(white, black, lastColor)) >= Cardinality(Mover(pwhite, pblack, lastColor)) + 2

\* C2: every cell find_moves(color) returns is empty and ends a run of one or
\* more opponent discs, in one of the 8 directions and inside the board, whose
\* other end is a disc of the mover.
C2_MovesSound ==
    \A c \in BOOLEAN :
        LET legal == LegalCells(white, black, c)
        IN /\ find_moves(white, black, c) \subseteq legal
           /\ find_moves_unrolled(white, black, c) \subseteq legal

\* C2 witness: after a move, the side to move is offered several cells, and an
\* empty cell next to an opponent disc is not offered.
C2_Witness ==
    /\ Played
    /\ Cardinality(find_moves(white, black, color)) >= 2
    /\ \E cell \in Free(white, black) \ find_moves(white, black, color) :
           \E d \in Dirs : At(cell, d, 1) \in Opp(white, black, color)

\* C3: find_moves(color) returns every empty cell from which a run of 1 to 6
\* opponent discs leads to a mover disc, and returns zero exactly when there
\* is no such cell.
C3_MovesComplete ==
    \A c \in BOOLEAN :
        LET legal == LegalCells(white, black, c)
            looped == find_moves(white, black, c)
            unrolled == find_moves_unrolled(white, black, c)
        IN /\ legal \subseteq looped
           /\ legal \subseteq unrolled
           /\ (looped = {}) <=> (legal = {})
           /\ (unrolled = {}) <=> (legal = {})

\* C3 witness: a returned cell whose only capture is a run of the maximal
\* length 6.
C3_Witness ==
    \E cell \in find_moves(white, black, color) :
        \E d \in Dirs :
            /\ Flanked(Mover(white, black, color), Opp(white, black, color), cell, d, MaxRun)
            /\ \A e \in Dirs \ {d} : Captured(Mover(white, black, color), Opp(white, black, color), cell, e) = {}

\* C4: play_move of a legal cell sets the cell for the mover, flips exactly
\* the opponent discs of the runs that end at a mover disc, and leaves every
\* other cell to its owner; a run ending at an empty cell or the edge stays.
C4_PlayMoveExact ==
    Played =>
        /\ [white |-> white, black |-> black] = Expected(pwhite, pblack, lastColor, LastCell)
        /\ [white |-> uwhite, black |-> ublack] = Expected(pwhite, pblack, lastColor, LastCell)

\* C4 witness: the last move flipped a run in one direction and left standing
\* an opponent run, in another direction, that ends at an empty cell or edge.
C4_Witness ==
    /\ Played
    /\ \E d \in Dirs : Captured(Mover(pwhite, pblack, lastColor), Opp(pwhite, pblack, lastColor), LastCell, d) # {}
    /\ \E d \in Dirs :
        /\ OppRun(Opp(pwhite, pblack, lastColor), LastCell, d, 1) # {}
        /\ Captured(Mover(pwhite, pblack, lastColor), Opp(pwhite, pblack, lastColor), LastCell, d) = {}
        /\ OppRun(Opp(pwhite, pblack, lastColor), LastCell, d, 1) \subseteq Opp(white, black, lastColor)

\* C5: a move of find_moves never decreases the mover's disc count, and
\* discs(white) + discs(black) + empty cells = 64 in every state.
C5_Counts ==
    /\ Played => popcount(Mover(white, black, lastColor)) >= popcount(Mover(pwhite, pblack, lastColor))
    /\ popcount(white) + popcount(black) + popcount(Free(white, black)) = 64
    /\ popcount(uwhite) + popcount(ublack) + popcount(Free(uwhite, ublack)) = 64

\* C5 witness: a move that raised the mover's count by more than the disc set.
C5_Witness ==
    /\ Played
    /\ popcount(Mover(white, black, lastColor)) > popcount(Mover(pwhite, pblack, lastColor)) + 2

\* C6: the looped and the unrolled backend return the same find_moves mask and
\* hold the same board after the same sequence of moves.
C6_BackendsAgree ==
    /\ white = uwhite
    /\ black = ublack
    /\ \A c \in BOOLEAN : find_moves(white, black, c) = find_moves_unrolled(uwhite, ublack, c)

\* C6 witness: both backends applied a move that captured a run of 6.
C6_Witness ==
    /\ Played
    /\ \E d \in Dirs : Cardinality(Captured(Mover(pwhite, pblack, lastColor), Opp(pwhite, pblack, lastColor), LastCell, d)) = MaxRun
    /\ white = uwhite /\ black = ublack

\* C7: the vectorized rate_board (both vector backends) returns the score of
\* the scalar rate_board for every board.
C7_RateBoardAgree ==
    LET scalar == rate_board(white, black)
    IN /\ rate_board_vec(white, black) = scalar
       /\ rate_board_unrolled(white, black) = scalar

\* C7 witness: a board after two moves, with discs of both colors in an edge
\* column and a non-zero score.
C7_Witness ==
    /\ nmoves >= 2
    /\ \E i \in white : i % 8 \in {0, 7}
    /\ \E i \in black : i % 8 \in {0, 7}
    /\ rate_board_vec(white, black) # 0

\* The weight of the discs in the bitmap: bit i weighs heuristics_map[63 - i].
RECURSIVE Weight(_)
Weight(bitmap) ==
    IF bitmap = {} THEN 0
    ELSE LET i == CHOOSE x \in bitmap : TRUE
         IN heuristics_map[63 - i] + Weight(bitmap \ {i})

\* C8 as stated, in the game main starts from the initial position: the
\* weights signed by color, plus 10 times (the legal moves of the side to move
\* minus those of its opponent).
C8_Original ==
    (pc = "run" /\ Played /\ k0 = popcount(Free(INITIAL.white, INITIAL.black))) =>
        rate_board(white, black) =
            Weight(white) - Weight(black)
            + 10 * (Cardinality(LegalCells(white, black, color))
                    - Cardinality(LegalCells(white, black, ~color)))

\* C8 amended: the weights counted positive for white and negative for black,
\* plus 10 times (white's legal moves minus black's), whoever is to move.
C8_RateBoard ==
    LET score == Weight(white) - Weight(black)
                 + 10 * (Cardinality(LegalCells(white, black, TRUE))
                         - Cardinality(LegalCells(white, black, FALSE)))
    IN /\ rate_board(white, black) = score
       /\ rate_board_vec(white, black) = score
       /\ rate_board_unrolled(white, black) = score

\* C8 witness: black is to move and the two sides have different numbers of
\* legal moves.
C8_Witness ==
    /\ Played
    /\ color = FALSE
    /\ Cardinality(find_moves(white, black, TRUE)) # Cardinality(find_moves(white, black, FALSE))

\* The measure of a game in progress: two per empty cell, plus one while the
\* last turn was not a skipped one.
Rank == 2 * popcount(Free(white, black)) + (IF passed THEN 0 ELSE 1)

\* C9: a game driven by alternating turns, skipping a side without a move and
\* stopping when neither side has one, terminates after at most k moves from
\* k empty cells: every move fills one empty cell, every turn of the game
\* (a move or a skipped turn) lowers the measure Rank, which is never
\* negative, a full board meets the stop condition, and the game ends only
\* when neither side has a move.
C9_GameTerminates ==
    /\ [](nmoves + popcount(Free(white, black)) = k0)
    /\ [](Free(white, black) = {} =>
             find_moves(white, black, TRUE) = {} /\ find_moves(white, black, FALSE) = {})
    /\ [](pc \in {"delete_ui", "delete_engine", "return", "done"} =>
             find_moves(white, black, TRUE) = {} /\ find_moves(white, black, FALSE) = {})
    /\ [][pc = "run" /\ pc' = "run" => Rank' < Rank]_vars

\* C9 witness: a game from two or more empty cells played until the board is
\* full, one move per empty cell, after which main returned.
C9_Witness ==
    /\ pc = "done"
    /\ k0 >= 2
    /\ nmoves = k0
    /\ Free(white, black) = {}

C11_EngineSelection ==
    engine # "null" =>
        /\ (engine = "NegascoutParallel") <=> (settings.alg = "NEGASCOUT" /\ settings.thread_count > 1)
        /\ settings.alg = "ALPHABETA" => engine = "Alphabeta"
        /\ (settings.alg = "NEGASCOUT" /\ settings.thread_count = 1) => engine = "Negascout"

\* C11 witness: main constructed the serial Alphabeta engine for a command
\* line that asks for AlphaBeta with two threads.
C11_Witness ==
    /\ engine = "Alphabeta"
    /\ settings.alg = "ALPHABETA"
    /\ settings.thread_count > 1

\* C12: the SIGINT handler only sets a flag: an interrupt taken while main is
\* inside app.run(), using the engine and the UI, releases neither object.
C12_FlagOnly ==
    [][(pc = "run" /\ pc' \in {"exited", "crashed"}) =>
           (ui_rel' = ui_rel /\ engine_rel' = engine_rel)]_vars

\* C16: with SIGINT delivered at any point after the handler is installed,
\* the UI object and the engine object are each released at most once (a
\* second release is also a use of the released object by its destructor).
C16_ReleasedOnce ==
    /\ ui_rel <= 1
    /\ engine_rel <= 1

\* C17: a play_move of a cell of find_moves fills exactly one empty cell and
\* flips at least one disc: the total grows by 1, the mover's count by at
\* least 2, and the opponent's count drops by at least 1 (both backends).
C17_MoveCounts ==
    Played =>
        /\ popcount(white) + popcount(black) = popcount(pwhite) + popcount(pblack) + 1
        /\ popcount(Mover(white, black, lastColor)) >= popcount(Mover(pwhite, pblack, lastColor)) + 2
        /\ popcount(Opp(white, black, lastColor)) <= popcount(Opp(pwhite, pblack, lastColor)) - 1
        /\ popcount(uwhite) + popcount(ublack) = popcount(pwhite) + popcount(pblack) + 1
        /\ popcount(Mover(uwhite, ublack, lastColor)) >= popcount(Mover(pwhite, pblack, lastColor)) + 2
        /\ popcount(Opp(uwhite, ublack, lastColor)) <= popcount(Opp(pwhite, pblack, lastColor)) - 1

\* C17 witness: the smallest case, a move that flipped exactly one disc, made
\* after an earlier move.
C17_Witness ==
    /\ Played
    /\ nmoves >= 2
    /\ popcount(Mover(white, black, lastColor)) = popcount(Mover(pwhite, pblack, lastColor)) + 2
    /\ popcount(Opp(white, black, lastColor)) = popcount(Opp(pwhite, pblack, lastColor)) - 1

\* C18: play_move(color, 0) leaves both bitmaps as they are, for either color
\* and both backends: on every reachable board, and where a caller applied it.
C18_PassNoOp ==
    /\ \A c \in BOOLEAN :
          /\ play_move(white, black, c, {}) = [white |-> white, black |-> black]
          /\ play_move_unrolled(white, black, c, {}) = [white |-> white, black |-> black]
    /\ (pc = "call" /\ passed /\ lastMove = {}) =>
          /\ white = pwhite /\ black = pblack
          /\ uwhite = pwhite /\ ublack = pblack

\* C18 witness: the pass value was applied, after a move, for a color that
\* has a disc next to an opponent disc standing before one of its own.
C18_Witness ==
    /\ pc = "call" /\ passed /\ lastMove = {}
    /\ nmoves >= 1
    /\ \E cell \in Mover(white, black, lastColor) : \E d \in Dirs :
          /\ At(cell, d, 1) \in Opp(white, black, lastColor)
          /\ At(cell, d, 2) \in Mover(white, black, lastColor)

\* C19: exchanging the white and the black bitmap negates rate_board() and
\* exchanges find_moves(true) and find_moves(false), on every backend.
C19_ColorSymmetry ==
    /\ rate_board(black, white) = 0 - rate_board(white, black)
    /\ rate_board_vec(black, white) = 0 - rate_board_vec(white, black)
    /\ rate_board_unrolled(black, white) = 0 - rate_board_unrolled(white, black)
    /\ \A c \in BOOLEAN :
          /\ find_moves(black, white, c) = find_moves(white, black, ~c)
          /\ find_moves_unrolled(black, white, c) = find_moves_unrolled(white, black, ~c)

\* C19 witness: a board after a move with a non-zero score and different move
\* sets for the two colors.
C19_Witness ==
    /\ Played
    /\ rate_board(white, black) # 0
    /\ find_moves(white, black, TRUE) # find_moves(white, black, FALSE)
    /\ find_moves(white, black, TRUE) # {}
    /\ find_moves(white, black, FALSE) # {}

\* ------------------------------------------- parallel search of a split node
\* Transposition-table replacement: the existing entry is kept.
tt_keep_never(existing, incoming) == FALSE

\* Transposition-table replacement: the existing entry is kept if its stored
\* depth is greater than the incoming one, otherwise it is overwritten.
tt_keep(existing, incoming) == existing.depth > incoming.depth

\* The younger siblings are dispatched whatever the eldest is doing.
may_dispatch_early(t) == TRUE

\* The younger siblings are dispatched once the eldest sibling's search has
\* completed.
may_dispatch(t) == t[1] = "finished"

\* The split node returns with tasks in flight once the budget is exhausted.
may_return_expired(t) == expired \/ \A i \in Younger : t[i] \in {"none", "joined"}

\* The split node returns once every task it dispatched is joined.
may_return(t) == \A i \in Younger : t[i] \in {"none", "joined"}

\* The tasks that occupy a worker thread.
Running == {i \in Younger : task[i] \in {"searching", "locked", "wrote_depth", "wrote"}}

main_vars == <<pc, settings, engine, ui, game, heap>>

\* search() of a NegascoutParallel engine at a split node, the transposition
\* table holding nothing for the node's children.
ParInit ==
    /\ pc = "search"
    /\ settings = [alg |-> "NEGASCOUT", thread_count |-> Workers, depth |-> 1]
    /\ engine = select_engine(settings)
    /\ ui = "Terminal"
    /\ ui_rel = 0
    /\ engine_rel = 0
    /\ NoSearch
    /\ StartAt(INITIAL, FALSE)

\* The calling thread enters the search of the eldest sibling; the deadline
\* check at the entry unwinds the node if the budget is exhausted.
SearchEldest ==
    /\ pc = "search"
    /\ node = "eldest"
    /\ task[1] = "none"
    /\ IF expired
       THEN node' = "returned" /\ task' = task
       ELSE node' = node /\ task' = [task EXCEPT ![1] = "searching"]
    /\ UNCHANGED <<expired, slot, lock, inc, maxd, main_vars>>

\* Thread i has the result of a search of depth d for its child and takes the
\* guard of the transposition table to store it.
Acquire(i) ==
    /\ pc = "search"
    /\ task[i] = "searching"
    /\ lock = 0
    /\ \E d \in 1..MaxDepth : inc' = [inc EXCEPT ![i] = d]
    /\ lock' = i
    /\ task' = [task EXCEPT ![i] = "locked"]
    /\ UNCHANGED <<node, expired, slot, maxd, main_vars>>

\* The replacement rule, then the first field of the entry.
WriteDepth(i) ==
    /\ pc = "search"
    /\ task[i] = "locked"
    /\ IF tt_keep(slot, Entry(i, inc[i]))
       THEN /\ slot' = slot
            /\ task' = [task EXCEPT ![i] = "wrote"]
       ELSE /\ slot' = [slot EXCEPT !.depth = inc[i]]
            /\ task' = [task EXCEPT ![i] = "wrote_depth"]
    /\ UNCHANGED <<node, expired, lock, inc, maxd, main_vars>>

\* The rest of the entry.
WriteVal(i) ==
    /\ pc = "search"
    /\ task[i] = "wrote_depth"
    /\ slot' = [slot EXCEPT !.val = Entry(i, inc[i]).val]
    /\ task' = [task EXCEPT ![i] = "wrote"]
    /\ UNCHANGED <<node, expired, lock, inc, maxd, main_vars>>

\* The store is over: the guard is released and the child's search completes.
Release(i) ==
    /\ pc = "search"
    /\ task[i] = "wrote"
    /\ lock = i
    /\ lock' = 0
    /\ maxd' = IF inc[i] > maxd THEN inc[i] ELSE maxd
    /\ inc' = [inc EXCEPT ![i] = 0]
    /\ task' = [task EXCEPT ![i] = "finished"]
    /\ UNCHANGED <<node, expired, slot, main_vars>>

\* The budget is exhausted while thread i searches: its branch unwinds and
\* stores nothing.
Abort(i) ==
    /\ pc = "search"
    /\ task[i] = "searching"
    /\ expired
    /\ task' = [task EXCEPT ![i] = "finished"]
    /\ UNCHANGED <<node, expired, slot, lock, inc, maxd, main_vars>>

\* The calling thread turns to the younger siblings.
BeginDispatch ==
    /\ pc = "search"
    /\ node = "eldest"
    /\ may_dispatch(task)
    /\ node' = "dispatch"
    /\ UNCHANGED <<task, expired, slot, lock, inc, maxd, main_vars>>

\* The next younger sibling is submitted to the thread pool.
Dispatch(i) ==
    /\ pc = "search"
    /\ node = "dispatch"
    /\ ~expired
    /\ task[i] = "none"
    /\ \A j \in Younger : j < i => task[j] # "none"
    /\ task' = [task EXCEPT ![i] = "queued"]
    /\ UNCHANGED <<node, expired, slot, lock, inc, maxd, main_vars>>

\* No more siblings are submitted: all are, or the bound of the eldest cut
\* the rest off, or the budget is exhausted.
EndDispatch ==
    /\ pc = "search"
    /\ node = "dispatch"
    /\ node' = "join"
    /\ UNCHANGED <<task, expired, slot, lock, inc, maxd, main_vars>>

\* A free worker takes a submitted task; the deadline check at the entry of
\* its search ends it at once if the budget is exhausted.
Start(i) ==
    /\ pc = "search"
    /\ task[i] = "queued"
    /\ Cardinality(Running) < Workers
    /\ task' = [task EXCEPT ![i] = IF expired THEN "finished" ELSE "searching"]
    /\ UNCHANGED <<node, expired, slot, lock, inc, maxd, main_vars>>

\* The calling thread joins a task that has finished.
Join(i) ==
    /\ pc = "search"
    /\ node = "join"
    /\ task[i] = "finished"
    /\ task' = [task EXCEPT ![i] = "joined"]
    /\ UNCHANGED <<node, expired, slot, lock, inc, maxd, main_vars>>

\* The split node returns the best score of its completed children.
ReturnNode ==
    /\ pc = "search"
    /\ node = "join"
    /\ may_return(task)
    /\ node' = "returned"
    /\ UNCHANGED <<task, expired, slot, lock, inc, maxd, main_vars>>

\* The time budget runs out.
Expire ==
    /\ pc = "search"
    /\ node # "returned"
    /\ ~expired
    /\ expired' = TRUE
    /\ UNCHANGED <<node, task, slot, lock, inc, maxd, main_vars>>

NextPar ==
    \/ SearchEldest
    \/ \E i \in Children : Acquire(i)
    \/ \E i \in Children : WriteDepth(i)
    \/ \E i \in Children : WriteVal(i)
    \/ \E i \in Children : Release(i)
    \/ \E i \in Children : Abort(i)
    \/ BeginDispatch
    \/ \E i \in Younger : Dispatch(i)
    \/ EndDispatch
    \/ \E i \in Younger : Start(i)
    \/ \E i \in Younger : Join(i)
    \/ ReturnNode
    \/ Expire

ParSpec == ParInit /\ [][NextPar]_vars

\* C13: a store keeps the existing entry if its depth is greater than the
\* incoming depth and overwrites it otherwise, so whenever no store is under
\* way the slot holds one whole entry whose depth is the largest stored; this
\* holds for every interleaving of the stores of concurrent tasks.
C13_DepthPreferred ==
    /\ [](lock = 0 => (Whole(slot) /\ slot.depth = maxd))
    /\ [][\A i \in Children : (lock = i /\ lock' = 0) =>
             /\ slot' = slot
             /\ \/ slot.depth > inc[i]
                \/ slot = Entry(i, inc[i])]_vars

\* Two tasks have stored concurrently (one waited for the guard while the
\* other wrote), one of them was kept out by the deeper entry of the other.
C13_Witness ==
    /\ lock = 0
    /\ ~expired
    /\ task[2] = "finished" /\ task[3] = "finished"
    /\ slot.depth = MaxDepth
    /\ slot.val[1] = 2
    /\ maxd = MaxDepth

\* C14: a younger sibling is dispatched only after the search of the eldest
\* sibling has completed.
C14_EldestFirst ==
    \A i \in Younger : task[i] # "none" => task[1] = "finished"

C14_Witness ==
    /\ task[1] = "finished"
    /\ \E i \in Younger : task[i] = "searching"

\* C15: when the split node returns, every task it dispatched has been
\* joined, also when the budget ran out with tasks in flight.
C15_AllJoined ==
    node = "returned" => \A i \in Younger : task[i] \in {"none", "joined"}

\* The budget ran out after tasks were dispatched, and the node has returned.
C15_Witness ==
    /\ node = "returned"
    /\ expired
    /\ \E i \in Younger : task[i] = "joined"
    /\ maxd = slot.depth

====
